---------------------------- MODULE Spec2Model ----------------------------
(***************************************************************************)
(* A model of HW1/Untitled.ipynb: the train/validation split, the dataset  *)
(* wrapper, the data loaders, the training loop with early stopping and    *)
(* checkpointing, and the prediction routine.                              *)
(*                                                                         *)
(* Numbers.  A loss is an IEEE value: NaN, +Inf, or a finite non-negative  *)
(* number written (hi * 2^64 + lo) / den with small naturals hi, lo, den,  *)
(* so that the constant 2**64 of the trainer is exact.  Means are computed *)
(* in exact arithmetic on this form.  The ratio of the split is a double,  *)
(* written as three 18-bit limbs of its 53-bit significand and a binary    *)
(* exponent; the product ratio * length is rounded to 53 bits, half to     *)
(* even, as the double multiplication rounds it.                           *)
(***************************************************************************)
EXTENDS Integers, Sequences, FiniteSets

VARIABLES
    pc,               \* position of the running cell / function
    config,           \* the config record: n_epochs, early_stop, batch_size, valid_ratio
    raw_len,          \* number of rows of the table read from covid.train.csv
    feat,             \* what select_feat returned: x_train, x_valid, x_text, y_train, y_valid
    args,             \* MyDataset under test: the arguments x, y of its constructor
    dataset,          \* MyDataset under test: the object
    train_data,       \* rows of the training subset (sequence of row ids), after the split
    valid_data,       \* rows of the validation subset, after the split
    train_dataset,    \* MyDataset objects
    valid_dataset,
    test_dataset,
    train_loader,     \* DataLoader objects
    valid_loader,
    test_loader,
    data_loader,      \* the argument of predict
    epoch,            \* trainer: index of the current iteration of range(n_epochs)
    best_loss,        \* trainer: best mean validation loss so far
    step,             \* trainer: number of optimizer steps taken
    early_stop_count, \* trainer: consecutive epochs without improvement
    loss_record,      \* trainer: batch losses of the running pass
    mean_train_loss,  \* trainer: mean training loss of the running epoch
    pending,          \* dataset indices the running loader iteration has not yielded yet
    batch,            \* the batch the running loop body holds (x, or x and y)
    params,           \* model parameters: their version (one per optimizer step), and
                      \* whether they are all finite
    ckpt,             \* content of the file at config['save_path']
    writer,           \* events of the SummaryWriter: (tag, value, step)
    preds,            \* predict: the list of per-batch outputs, then the result
    ret               \* MyDataset: what the last call returned

vars == << pc, config, raw_len, feat, args, dataset, train_data, valid_data, train_dataset, valid_dataset,
           test_dataset, train_loader, valid_loader, test_loader, data_loader, epoch,
           best_loss, step, early_stop_count, loss_record, mean_train_loss, pending,
           batch, params, ckpt, writer, preds, ret >>

\* what the trainer only reads, or does not touch
fixedVars == << config, raw_len, feat, args, dataset, train_data, valid_data, train_dataset, valid_dataset,
                test_dataset, train_loader, valid_loader, test_loader, data_loader,
                preds, ret >>

trainerVars == << epoch, best_loss, step, early_stop_count, loss_record,
                  mean_train_loss, pending, batch, params, ckpt, writer >>

(***************************************************************************)
(* Bounds of the model.                                                    *)
(***************************************************************************)
MaxEpochs == 4
MaxPatience == 2
MaxLen == 3
MaxN == 4

Min(a, b) == IF a < b THEN a ELSE b

RECURSIVE GCD(_, _)
GCD(a, b) == IF b = 0 THEN a ELSE GCD(b, a % b)

(***************************************************************************)
(* Loss values.                                                            *)
(***************************************************************************)
NaN == [kind |-> "nan"]
PosInf == [kind |-> "inf"]
Fin(hi, lo, den) ==
    LET g == GCD(GCD(hi, lo), den)
    IN  [kind |-> "fin", hi |-> hi \div g, lo |-> lo \div g, den |-> den \div g]

IsFinite(a) == a.kind = "fin"

\* 2**64, the initial best_loss
TwoPow64 == Fin(1, 0, 1)

\* the int 0 that sum() starts from
Zero == [kind |-> "fin", hi |-> 0, lo |-> 0, den |-> 1]

\* a + b for non-negative IEEE values
Add(a, b) ==
    IF a.kind = "nan" \/ b.kind = "nan" THEN NaN
    ELSE IF a.kind = "inf" \/ b.kind = "inf" THEN PosInf
    ELSE [kind |-> "fin", hi |-> a.hi * b.den + b.hi * a.den,
          lo |-> a.lo * b.den + b.lo * a.den, den |-> a.den * b.den]

\* sum(loss_record)
RECURSIVE Sum(_)
Sum(s) == IF s = << >> THEN Zero ELSE Add(Sum(SubSeq(s, 1, Len(s) - 1)), s[Len(s)])

\* a / n for an int n > 0
DivInt(a, n) ==
    IF a.kind = "fin" THEN Fin(a.hi, a.lo, a.den * n) ELSE a

LtNaNLess(a, b) ==
    IF a.kind = "nan" THEN TRUE
    ELSE IF b.kind = "nan" \/ a.kind = "inf" THEN FALSE
    ELSE IF b.kind = "inf" THEN TRUE
    ELSE \/ a.hi * b.den < b.hi * a.den
         \/ a.hi * b.den = b.hi * a.den /\ a.lo * b.den < b.lo * a.den

\* a < b on IEEE values: false when either is NaN
Lt(a, b) ==
    IF a.kind = "nan" \/ b.kind = "nan" \/ a.kind = "inf" THEN FALSE
    ELSE IF b.kind = "inf" THEN TRUE
    ELSE \/ a.hi * b.den < b.hi * a.den
         \/ a.hi * b.den = b.hi * a.den /\ a.lo * b.den < b.lo * a.den

MeanZeroOnEmpty(record) ==
    IF record = << >> THEN << Zero >> ELSE << DivInt(Sum(record), Len(record)) >>

\* sum(loss_record)/len(loss_record): << the mean >>, or << >> when the list is
\* empty and the division raises ZeroDivisionError
Mean(record) ==
    IF record = << >> THEN << >> ELSE << DivInt(Sum(record), Len(record)) >>

\* the losses a validation batch may produce: two small values, 2**64 itself,
\* +Inf and NaN
ValidLosses == { Fin(0, 1, 1), Fin(0, 2, 1), Fin(1, 0, 1), PosInf, NaN }

\* the losses a training batch may produce: a small value and NaN
TrainLosses == { Fin(0, 1, 1), NaN }

\* the numbers of rows of the datasets handed to the trainer
LoaderLens == {0, 1, 2}


(***************************************************************************)
(* Doubles: valid_ratio * len(data_set), and int() of it.                  *)
(***************************************************************************)
\* the base of a limb: 2^18
Limb == 262144

RECURSIVE Pow2(_)
Pow2(n) == IF n = 0 THEN 1 ELSE 2 * Pow2(n - 1)

RECURSIVE BitLen(_)
BitLen(n) == IF n = 0 THEN 0 ELSE 1 + BitLen(n \div 2)

\* the double (l2 * 2^36 + l1 * 2^18 + l0) / 2^k, its significand of 53 bits
Double(l2, l1, l0, k) == [l2 |-> l2, l1 |-> l1, l0 |-> l0, k |-> k]

\* the doubles 0.0, 0.2 (the config's valid_ratio), 0.5, 0.3333333333333333, 0.6
Ratios ==
    { Double(0, 0, 0, 53), Double(104857, 157286, 104858, 55), Double(65536, 0, 0, 53),
      Double(87381, 87381, 87381, 54), Double(78643, 52428, 209715, 53) }

\* the exact product r * n of a double and a natural n < 2^13, in limbs
Product(r, n) ==
    LET t0 == r.l0 * n
        t1 == r.l1 * n + t0 \div Limb
    IN  [l2 |-> r.l2 * n + t1 \div Limb, l1 |-> t1 % Limb, l0 |-> t0 % Limb, k |-> r.k]

\* the bits a product has beyond the 53 of a significand
ExtraBits(p) == IF BitLen(p.l2) + 36 > 53 THEN BitLen(p.l2) + 36 - 53 ELSE 0

\* a product rounded to a significand of 53 bits, half to even
RoundToDouble(p) ==
    LET s == ExtraBits(p)
        low == p.l0 % Pow2(s)
        up == s > 0 /\ (\/ 2 * low > Pow2(s)
                        \/ 2 * low = Pow2(s) /\ (p.l0 \div Pow2(s)) % 2 = 1)
        t0 == p.l0 - low + (IF up THEN Pow2(s) ELSE 0)
        t1 == p.l1 + t0 \div Limb
    IN  [l2 |-> p.l2 + t1 \div Limb, l1 |-> t1 % Limb, l0 |-> t0 % Limb, k |-> p.k]

\* the integer part of a number (l2 * 2^36 + l1 * 2^18 + l0) / 2^k, k >= 36
Trunc(p) == p.l2 \div Pow2(p.k - 36)

CeilOfProduct(r, n) ==
    IF Product(r, n).l0 = 0 /\ Product(r, n).l1 = 0
          /\ Product(r, n).l2 % Pow2(r.k - 36) = 0
    THEN Trunc(Product(r, n)) ELSE Trunc(Product(r, n)) + 1

\* int(valid_ratio * len(data_set)): the double product, then truncation
IntOfProduct(r, n) == Trunc(RoundToDouble(Product(r, n)))

(***************************************************************************)
(* train_valid_split.                                                      *)
(***************************************************************************)
\* torch.randperm(n, generator=...): the orders of 0..n-1 a seed may give
Permutations(n) ==
    { f \in [1..n -> 0..(n - 1)] : \A i, j \in 1..n : f[i] = f[j] => i = j }

\* random_split(data_set, [train_set_size, valid_set_size]) along a permutation
random_split(perm, train_set_size, valid_set_size) ==
    << SubSeq(perm, 1, train_set_size),
       SubSeq(perm, train_set_size + 1, train_set_size + valid_set_size) >>

train_valid_split_ceil(n, valid_ratio, perm) ==
    random_split(perm, n - CeilOfProduct(valid_ratio, n), CeilOfProduct(valid_ratio, n))

\* train_valid_split on a table of n rows: (rows of train_set, rows of valid_set)
train_valid_split(n, valid_ratio, perm) ==
    random_split(perm, n - IntOfProduct(valid_ratio, n), IntOfProduct(valid_ratio, n))

(***************************************************************************)
(* MyDataset.                                                              *)
(***************************************************************************)
TwoPow24 == 16777216

\* float64 -> float32 on a natural v < 2^25: exact below 2^24, then to the
\* nearest multiple of 2, a tie going to the even significand
Float32(v) ==
    IF v <= TwoPow24 \/ v % 2 = 0 THEN v
    ELSE IF ((v - 1) \div 2) % 2 = 0 THEN v - 1 ELSE v + 1

\* torch.FloatTensor(a): a float32 copy of the array
FloatTensor(a) == [i \in 1..Len(a) |-> Float32(a[i])]

NoWrapIndex(t, idx) ==
    IF 0 <= idx /\ idx < Len(t) THEN << t[idx + 1] >> ELSE << >>

\* t[idx] on a tensor of Len(t) rows: a negative idx counts from the end, and an
\* idx outside [-Len(t), Len(t)) raises IndexError.  << row >>, or << >> when raised
TensorIndex(t, idx) ==
    IF 0 <= idx /\ idx < Len(t) THEN << t[idx + 1] >>
    ELSE IF -Len(t) <= idx /\ idx < 0 THEN << t[Len(t) + idx + 1] >>
    ELSE << >>

\* MyDataset.__init__: has_y is "self.y is not None"
MyDataset(x, y, has_y) ==
    [x |-> FloatTensor(x), y |-> IF has_y THEN FloatTensor(y) ELSE << >>, has_y |-> has_y]

\* MyDataset.__getitem__: << item >>, or << >> when the indexing raised
GetItem(ds, idx) ==
    IF ~ds.has_y THEN TensorIndex(ds.x, idx)
    ELSE IF TensorIndex(ds.x, idx) = << >> \/ TensorIndex(ds.y, idx) = << >> THEN << >>
    ELSE << << TensorIndex(ds.x, idx)[1], TensorIndex(ds.y, idx)[1] >> >>

\* MyDataset.__len__
DatasetLen(ds) == Len(ds.x)

(***************************************************************************)
(* DataLoader.                                                             *)
(***************************************************************************)
DataLoader(ds, batch_size, shuffle) ==
    [dataset |-> ds, batch_size |-> batch_size, shuffle |-> shuffle]

\* iter(loader): the dataset indices still to be yielded
Iter(loader) == 0 .. (DatasetLen(loader.dataset) - 1)

SetMin(S) == CHOOSE m \in S : \A o \in S : m <= o

RECURSIVE Sorted(_)
Sorted(S) == IF S = {} THEN << >> ELSE << SetMin(S) >> \o Sorted(S \ {SetMin(S)})

\* the index sets the next batch may hold: the next batch_size indices in order,
\* or with shuffle any batch_size of the remaining ones (all of them if fewer remain)
NextBatches(loader, pend) ==
    LET k == Min(loader.batch_size, Cardinality(pend))
    IN  IF loader.shuffle
        THEN { S \in SUBSET pend : Cardinality(S) = k }
        ELSE { { i \in pend : Cardinality({ j \in pend : j < i }) < k } }

\* the items of a batch, fetched by __getitem__ (within a batch in index order)
Collate(loader, S) == [i \in 1..Cardinality(S) |-> GetItem(loader.dataset, Sorted(S)[i])[1]]

(***************************************************************************)
(* The model (FNN) and the optimizer.                                      *)
(***************************************************************************)
\* a freshly constructed FNN
FNN == [version |-> 0, finite |-> TRUE]

\* criterion(model(x), y) on a batch: any of the losses, and NaN once a parameter
\* is NaN (a NaN weight makes every output NaN)
Criterion(model, losses) == IF model.finite THEN losses ELSE {NaN}

\* loss.backward(); optimizer.step(): new parameters, NaN ones after a NaN loss
\* (its gradient is NaN, and Adam adds it to every parameter)
OptimizerStep(model, loss) ==
    [version |-> model.version + 1, finite |-> model.finite /\ loss.kind # "nan"]

(***************************************************************************)
(* trainer.                                                                *)
(***************************************************************************)
Event(tag, value, at) == [tag |-> tag, value |-> value, step |-> at]

\* n_epochs, best_loss, step, early_stop_count = config['n_epochs'], 2**64, 0, 0
TrainerEntry ==
    /\ epoch = 0
    /\ best_loss = TwoPow64
    /\ step = 0
    /\ early_stop_count = 0
    /\ loss_record = << >>
    /\ mean_train_loss = Zero
    /\ pending = {}
    /\ batch = << >>
    /\ writer = << >>

\* for epoch in range(n_epochs): model.train(); loss_record = []
EpochBegin ==
    /\ pc = "loop"
    /\ epoch < config.n_epochs
    /\ loss_record' = << >>
    /\ pending' = Iter(train_loader)
    /\ pc' = "train"
    /\ UNCHANGED << epoch, best_loss, step, early_stop_count, mean_train_loss, batch,
                    params, ckpt, writer >>
    /\ UNCHANGED fixedVars

\* range(n_epochs) is exhausted: trainer returns
LoopExit ==
    /\ pc = "loop"
    /\ epoch >= config.n_epochs
    /\ pc' = "done"
    /\ UNCHANGED trainerVars
    /\ UNCHANGED fixedVars

\* one iteration of "for x, y in train_loader": forward, loss, backward,
\* optimizer.step(), step += 1, loss_record.append(loss)
TrainBatch ==
    /\ pc = "train"
    /\ pending # {}
    /\ \E S \in NextBatches(train_loader, pending) :
          /\ batch' = Collate(train_loader, S)
          /\ pending' = pending \ S
    /\ \E loss \in Criterion(params, TrainLosses) :
          /\ loss_record' = Append(loss_record, loss)
          /\ params' = OptimizerStep(params, loss)
    /\ step' = step + 1
    /\ UNCHANGED << pc, epoch, best_loss, early_stop_count, mean_train_loss, ckpt, writer >>
    /\ UNCHANGED fixedVars

\* the training pass is over: mean_train_loss, writer.add_scalar('Loss/train'),
\* model.eval(), loss_record = []
TrainMean ==
    /\ pc = "train"
    /\ pending = {}
    /\ IF Mean(loss_record) = << >>
       THEN /\ pc' = "error"
            /\ UNCHANGED trainerVars
       ELSE /\ mean_train_loss' = Mean(loss_record)[1]
            /\ writer' = Append(writer, Event("Loss/train", Mean(loss_record)[1], step))
            /\ loss_record' = << >>
            /\ pending' = Iter(valid_loader)
            /\ pc' = "valid"
            /\ UNCHANGED << epoch, best_loss, step, early_stop_count, batch, params, ckpt >>
    /\ UNCHANGED fixedVars

\* one iteration of "for x, y in valid_loader": forward and loss under no_grad
ValidBatch ==
    /\ pc = "valid"
    /\ pending # {}
    /\ \E S \in NextBatches(valid_loader, pending) :
          /\ batch' = Collate(valid_loader, S)
          /\ pending' = pending \ S
    /\ \E loss \in Criterion(params, ValidLosses) :
          loss_record' = Append(loss_record, loss)
    /\ UNCHANGED << pc, epoch, best_loss, step, early_stop_count, mean_train_loss,
                    params, ckpt, writer >>
    /\ UNCHANGED fixedVars

ImprovedOrEqual(mean_valid_loss, best) == ~Lt(best, mean_valid_loss)

\* if mean_valid_loss < best_loss
Improved(mean_valid_loss, best) == Lt(mean_valid_loss, best)

StopAfter(count, patience) == count > patience

\* if early_stop_count >= config['early_stop']
ShouldStop(count, patience) == count >= patience

\* the validation pass is over: mean_valid_loss, writer.add_scalar('Loss/valid'),
\* the improvement check with torch.save, and the early-stop check
EpochEnd ==
    /\ pc = "valid"
    /\ pending = {}
    /\ IF Mean(loss_record) = << >>
       THEN /\ pc' = "error"
            /\ UNCHANGED trainerVars
       ELSE LET mean_valid_loss == Mean(loss_record)[1]
            IN  /\ writer' = Append(writer, Event("Loss/valid", mean_valid_loss, step))
                /\ IF Improved(mean_valid_loss, best_loss)
                   THEN /\ best_loss' = mean_valid_loss
                        /\ ckpt' = << params >>
                        /\ early_stop_count' = 0
                   ELSE /\ early_stop_count' = early_stop_count + 1
                        /\ UNCHANGED << best_loss, ckpt >>
                /\ IF ShouldStop(early_stop_count', config.early_stop)
                   THEN pc' = "done" /\ epoch' = epoch
                   ELSE pc' = "loop" /\ epoch' = epoch + 1
                /\ UNCHANGED << step, loss_record, mean_train_loss, pending, batch, params >>
    /\ UNCHANGED fixedVars

(***************************************************************************)
(* The trainer alone, on loaders and a config given by its caller.         *)
(***************************************************************************)
Ids(from, n) == [i \in 1..n |-> from + i]

\* the state of the cells that are not running
NoSplit ==
    /\ raw_len = 0
    /\ train_data = << >>
    /\ valid_data = << >>
    /\ feat = [x_train |-> << >>, x_valid |-> << >>, x_text |-> << >>,
               y_train |-> << >>, y_valid |-> << >>]

NoDataset ==
    /\ args = [x |-> << >>, y |-> << >>, has_y |-> FALSE]
    /\ dataset = MyDataset(<< >>, << >>, FALSE)
    /\ ret = [op |-> "none", idx |-> 0, raised |-> FALSE, value |-> << >>]

NoLoaders ==
    /\ train_dataset = MyDataset(<< >>, << >>, TRUE)
    /\ valid_dataset = MyDataset(<< >>, << >>, TRUE)
    /\ train_loader = DataLoader(train_dataset, 1, TRUE)
    /\ valid_loader = DataLoader(valid_dataset, 1, TRUE)

NoPredict ==
    /\ test_dataset = MyDataset(<< >>, << >>, FALSE)
    /\ test_loader = DataLoader(test_dataset, 1, FALSE)
    /\ data_loader = DataLoader(test_dataset, 1, FALSE)
    /\ preds = << >>

\* the trainer is called on a fresh model, given loaders and a config
Init ==
    /\ pc = "loop"
    /\ \E n \in 0..MaxEpochs, p \in 0..MaxPatience :
          config = [n_epochs |-> n, early_stop |-> p, batch_size |-> 1,
                    valid_ratio |-> Double(104857, 157286, 104858, 55)]
    /\ \E nt \in LoaderLens, nv \in LoaderLens :
          /\ train_dataset = MyDataset(Ids(0, nt), Ids(0, nt), TRUE)
          /\ valid_dataset = MyDataset(Ids(nt, nv), Ids(nt, nv), TRUE)
    /\ train_loader = DataLoader(train_dataset, config.batch_size, TRUE)
    /\ valid_loader = DataLoader(valid_dataset, config.batch_size, TRUE)
    /\ params = FNN
    /\ ckpt = << >>
    /\ TrainerEntry
    /\ NoSplit
    /\ NoDataset
    /\ NoPredict

Next ==
    \/ EpochBegin
    \/ LoopExit
    \/ TrainBatch
    \/ TrainMean
    \/ ValidBatch
    \/ EpochEnd

Spec == Init /\ [][Next]_vars

(***************************************************************************)
(* train_valid_split alone, on a table of raw_len rows.                    *)
(***************************************************************************)
\* train_data, valid_data = train_valid_split(train_data, config['valid_ratio'], seed)
Split ==
    /\ pc = "split"
    /\ \E perm \in Permutations(raw_len) :
          /\ train_data' = train_valid_split(raw_len, config.valid_ratio, perm)[1]
          /\ valid_data' = train_valid_split(raw_len, config.valid_ratio, perm)[2]
    /\ pc' = "select"
    /\ UNCHANGED << config, raw_len, feat, args, dataset, train_dataset, valid_dataset,
                    test_dataset, train_loader, valid_loader, test_loader, data_loader,
                    preds, ret >>
    /\ UNCHANGED trainerVars

InitSplit ==
    /\ pc = "split"
    /\ raw_len \in 0..MaxN
    /\ \E r \in Ratios :
          config = [n_epochs |-> 1, early_stop |-> 1, batch_size |-> 2, valid_ratio |-> r]
    /\ train_data = << >>
    /\ valid_data = << >>
    /\ feat = [x_train |-> << >>, x_valid |-> << >>, x_text |-> << >>,
               y_train |-> << >>, y_valid |-> << >>]
    /\ params = FNN
    /\ ckpt = << >>
    /\ TrainerEntry
    /\ NoLoaders
    /\ NoDataset
    /\ NoPredict

NextSplit == Split

SpecSplit == InitSplit /\ [][NextSplit]_vars

Range(f) == { f[i] : i \in DOMAIN f }

IsValidEvent(e) == e.tag = "Loss/valid"

ValidLog == SelectSeq(writer, IsValidEvent)

\* the best loss before epoch j of a log, from the trainer's initial best_loss
RECURSIVE BestBefore(_, _)
BestBefore(log, j) ==
    IF j <= 1 THEN TwoPow64
    ELSE IF Lt(log[j - 1].value, BestBefore(log, j - 1)) THEN log[j - 1].value
    ELSE BestBefore(log, j - 1)

Improving(log, j) == Lt(log[j].value, BestBefore(log, j))

\* the number of consecutive non-improving epochs that end with epoch j
RECURSIVE Stall(_, _)
Stall(log, j) ==
    IF j = 0 \/ Improving(log, j) THEN 0 ELSE 1 + Stall(log, j - 1)

EpochEnds == pc = "valid" /\ pc' \in {"loop", "done"}

HasNonFinite(record) == \E i \in 1..Len(record) : ~IsFinite(record[i])

NonFiniteSeen ==
    \/ HasNonFinite(loss_record)
    \/ \E i \in 1..Len(writer) : ~IsFinite(writer[i].value)

EmptyLoader ==
    DatasetLen(train_loader.dataset) = 0 \/ DatasetLen(valid_loader.dataset) = 0

(***************************************************************************)
(* C1.  The end of an epoch does exactly one of two things: on a mean      *)
(* validation loss strictly below best_loss it sets best_loss to it,       *)
(* writes the current parameters to the checkpoint and resets the stall    *)
(* counter; otherwise, equality included, it adds one to the stall counter *)
(* and leaves best_loss and the checkpoint alone.  The checkpoint changes  *)
(* in no other step.                                                       *)
(***************************************************************************)
C1_EpochTransition ==
    /\ [][EpochEnds =>
            /\ writer'[Len(writer')] = Event("Loss/valid", Mean(loss_record)[1], step)
            /\ IF Lt(Mean(loss_record)[1], best_loss)
               THEN /\ best_loss' = Mean(loss_record)[1]
                    /\ ckpt' = << params >>
                    /\ early_stop_count' = 0
               ELSE /\ early_stop_count' = early_stop_count + 1
                    /\ best_loss' = best_loss
                    /\ ckpt' = ckpt]_vars
    /\ [][~EpochEnds => UNCHANGED << best_loss, ckpt, early_stop_count >>]_vars

\* both transitions have happened: a checkpoint is on disk and the last epoch stalled
C1_Witness ==
    /\ pc \in {"loop", "done"}
    /\ ckpt # << >>
    /\ early_stop_count > 0
    /\ \E i \in 1..Len(ValidLog) : ValidLog[i].value = best_loss /\ i < Len(ValidLog)

(***************************************************************************)
(* C2.  The trainer returns at the end of the first epoch whose run of     *)
(* consecutive non-improving epochs reaches early_stop, and otherwise      *)
(* after exactly n_epochs epochs; while it runs, no finished epoch has     *)
(* reached early_stop, so no epoch follows the halt.                       *)
(***************************************************************************)
C2_HaltsAtPatience ==
    LET log == ValidLog
        k == Len(ValidLog)
    IN  /\ k <= config.n_epochs
        /\ \A j \in 1..(k - 1) : Stall(log, j) < config.early_stop
        /\ pc # "done" => \A j \in 1..k : Stall(log, j) < config.early_stop
        /\ pc = "done" =>
              \/ k >= 1 /\ Stall(log, k) >= config.early_stop
              \/ k = config.n_epochs
        /\ pc \in {"train", "valid"} => epoch = k /\ k < config.n_epochs
        /\ pc = "loop" => epoch = k

\* stopped before the budget, by early_stop = 2 stalled epochs in a row that
\* followed an improving one
C2_Witness ==
    /\ pc = "done"
    /\ config.early_stop = 2
    /\ Len(ValidLog) = 3
    /\ Len(ValidLog) < config.n_epochs
    /\ Stall(ValidLog, 1) = 0
    /\ Stall(ValidLog, 3) = 2

(***************************************************************************)
(* C3.  When the trainer has returned and some epoch had a finite mean     *)
(* validation loss, the checkpoint holds the parameters of the earliest    *)
(* epoch whose mean validation loss is the least one observed.             *)
(***************************************************************************)
\* the checkpoint file holds the parameters as they were after n optimizer steps
SavedAt(n) == ckpt # << >> /\ ckpt[1].version = n

IsArgMin(log, j) ==
    /\ IsFinite(log[j].value)
    /\ \A i \in 1..Len(log) : ~Lt(log[i].value, log[j].value)
    /\ \A i \in 1..(j - 1) : ~IsFinite(log[i].value) \/ Lt(log[j].value, log[i].value)

C3_CheckpointIsBest ==
    pc = "done" =>
        \A j \in 1..Len(ValidLog) :
            IsArgMin(ValidLog, j) => SavedAt(ValidLog[j].step)

(***************************************************************************)
(* C8.  Whatever finite mean validation loss the first epoch has, the      *)
(* first epoch is a strict improvement: best_loss becomes that loss and    *)
(* the parameters of that epoch are written to the checkpoint.             *)
(***************************************************************************)
C8_FirstEpochImproves ==
    (pc \in {"loop", "done"} /\ Len(ValidLog) = 1 /\ IsFinite(ValidLog[1].value)) =>
        /\ best_loss = ValidLog[1].value
        /\ SavedAt(ValidLog[1].step)
        /\ early_stop_count = 0

(***************************************************************************)
(* C9, as claimed.  Once a batch loss or an epoch mean is NaN or infinite, *)
(* the next step is the abort of the run: no batch, no epoch, no stall     *)
(* counting and no checkpoint write follows.                               *)
(***************************************************************************)
C9_NonFiniteAborts ==
    [][NonFiniteSeen =>
          /\ pc' = "error"
          /\ UNCHANGED << step, epoch, early_stop_count, ckpt, loss_record, writer >>]_vars

(***************************************************************************)
(* C9, amended.  A NaN or infinite loss is not detected and aborts         *)
(* nothing: the only abort is the division by zero on an empty pass, and   *)
(* an epoch whose mean validation loss is NaN or infinite ends like any    *)
(* non-improving epoch, adding one to the stall counter and leaving        *)
(* best_loss and the checkpoint alone.                                     *)
(***************************************************************************)
C9_NonFiniteIsStall ==
    /\ [][(pc # "error" /\ pc' = "error") => loss_record = << >>]_vars
    /\ [][(EpochEnds /\ HasNonFinite(loss_record)) =>
            /\ ~IsFinite(writer'[Len(writer')].value)
            /\ early_stop_count' = early_stop_count + 1
            /\ UNCHANGED << best_loss, ckpt, step, params >>]_vars

\* the run went on after a NaN training loss and after a non-finite validation mean
C9_Witness ==
    /\ pc = "valid"
    /\ epoch >= 1
    /\ early_stop_count >= 1
    /\ ~IsFinite(ValidLog[1].value)
    /\ HasNonFinite(loss_record)
    /\ \E i \in 1..Len(writer) : writer[i].tag = "Loss/train" /\ writer[i].value = NaN

(***************************************************************************)
(* C10.  With a training or a validation loader that yields no batch, no   *)
(* epoch completes: the first epoch ends in the division by zero, before   *)
(* any improvement check, so that best_loss, the stall counter and the     *)
(* checkpoint stay as they were at entry; the trainer returns normally     *)
(* only when it was asked for no epoch at all.                             *)
(***************************************************************************)
C10_EmptyLoaderAborts ==
    /\ EmptyLoader =>
          /\ ValidLog = << >>
          /\ epoch = 0
          /\ ckpt = << >>
          /\ best_loss = TwoPow64
          /\ early_stop_count = 0
          /\ pc = "done" => config.n_epochs = 0
          /\ pc = "valid" => pending = {} /\ loss_record = << >>
          /\ (pc = "train" /\ DatasetLen(train_loader.dataset) = 0) =>
                pending = {} /\ loss_record = << >>
    /\ pc = "error" => EmptyLoader /\ epoch = 0

\* the abort on an empty validation loader, after a training pass that took steps
C10_Witness ==
    /\ pc = "error"
    /\ DatasetLen(valid_loader.dataset) = 0
    /\ DatasetLen(train_loader.dataset) > 0
    /\ step > 0
    /\ ckpt = << >>

(***************************************************************************)
(* MyDataset alone: built from arrays x and y (or no y), then indexed and  *)
(* measured.                                                               *)
(***************************************************************************)
\* the numbers an array may hold: a small one, and 2^24 + 1, which no float32 is
RawValues == {1, TwoPow24 + 1}

Arrays(n) == [1..n -> RawValues]

\* dataset = MyDataset(x, y)
DatasetNew ==
    /\ pc = "new"
    /\ dataset' = MyDataset(args.x, args.y, args.has_y)
    /\ pc' = "ready"
    /\ UNCHANGED << config, raw_len, feat, args, train_data, valid_data, train_dataset,
                    valid_dataset, test_dataset, train_loader, valid_loader, test_loader,
                    data_loader, preds, ret >>
    /\ UNCHANGED trainerVars

\* dataset[idx]
DatasetGet ==
    /\ pc = "ready"
    /\ \E idx \in (-(MaxLen + 1))..(MaxLen + 1) :
          ret' = [op |-> "getitem", idx |-> idx, raised |-> GetItem(dataset, idx) = << >>,
                  value |-> GetItem(dataset, idx)]
    /\ UNCHANGED << pc, config, raw_len, feat, args, dataset, train_data, valid_data,
                    train_dataset, valid_dataset, test_dataset, train_loader,
                    valid_loader, test_loader, data_loader, preds >>
    /\ UNCHANGED trainerVars

\* len(dataset)
DatasetLenCall ==
    /\ pc = "ready"
    /\ ret' = [op |-> "len", idx |-> 0, raised |-> FALSE, value |-> << DatasetLen(dataset) >>]
    /\ UNCHANGED << pc, config, raw_len, feat, args, dataset, train_data, valid_data,
                    train_dataset, valid_dataset, test_dataset, train_loader,
                    valid_loader, test_loader, data_loader, preds >>
    /\ UNCHANGED trainerVars

InitDataset ==
    /\ pc = "new"
    /\ \E n \in 0..MaxLen :
          \/ \E x \in Arrays(n) : args = [x |-> x, y |-> << >>, has_y |-> FALSE]
          \/ \E x \in Arrays(n), y \in Arrays(n) : args = [x |-> x, y |-> y, has_y |-> TRUE]
    /\ dataset = MyDataset(<< >>, << >>, FALSE)
    /\ ret = [op |-> "none", idx |-> 0, raised |-> FALSE, value |-> << >>]
    /\ config = [n_epochs |-> 1, early_stop |-> 1, batch_size |-> 1,
                 valid_ratio |-> Double(104857, 157286, 104858, 55)]
    /\ params = FNN
    /\ ckpt = << >>
    /\ TrainerEntry
    /\ NoSplit
    /\ NoLoaders
    /\ NoPredict

NextDataset == DatasetNew \/ DatasetGet \/ DatasetLenCall

SpecDataset == InitDataset /\ [][NextDataset]_vars

\* what get(i) is to return for row i (0-based) of the dataset: the row of the
\* float32 copy, with its label when the dataset has labels
RowItem(i) ==
    IF args.has_y THEN << << Float32(args.x[i + 1]), Float32(args.y[i + 1]) >> >>
    ELSE << Float32(args.x[i + 1]) >>

(***************************************************************************)
(* C7, as claimed.  len is the number L of rows; get(i) returns row i,     *)
(* with label i when there are labels, for i in [0, L), and fails for      *)
(* every other integer i, the negative ones included.                      *)
(***************************************************************************)
C7_GetFailsOutside ==
    /\ (pc = "ready" /\ ret.op = "len") => ret.value = << Len(args.x) >>
    /\ (pc = "ready" /\ ret.op = "getitem") =>
          IF 0 <= ret.idx /\ ret.idx < Len(args.x)
          THEN ~ret.raised /\ ret.value = RowItem(ret.idx)
          ELSE ret.raised

(***************************************************************************)
(* C7, amended.  len is the number L of rows; get(i) returns row i of the  *)
(* float32 copy, with label i when there are labels, for i in [0, L); for  *)
(* i in [-L, 0) it returns row L + i the same way; it fails for i >= L     *)
(* and for i < -L.                                                         *)
(***************************************************************************)
C7_GetWrapsNegative ==
    /\ (pc = "ready" /\ ret.op = "len") => ret.value = << Len(args.x) >>
    /\ (pc = "ready" /\ ret.op = "getitem") =>
          IF 0 <= ret.idx /\ ret.idx < Len(args.x)
          THEN ~ret.raised /\ ret.value = RowItem(ret.idx)
          ELSE IF -Len(args.x) <= ret.idx /\ ret.idx < 0
          THEN ~ret.raised /\ ret.value = RowItem(Len(args.x) + ret.idx)
          ELSE ret.raised

\* get(-1) on a labelled dataset of three rows returned the last row and label
C7_Witness ==
    /\ pc = "ready"
    /\ ret.op = "getitem"
    /\ ret.idx = -1
    /\ args.has_y
    /\ Len(args.x) = 3
    /\ ~ret.raised
    /\ ret.value = << << Float32(args.x[3]), Float32(args.y[3]) >> >>
    /\ args.x[3] # args.x[1]

(***************************************************************************)
(* predict alone: the notebook's test_loader is in place, and predict is   *)
(* called on a loader of inputs.                                           *)
(***************************************************************************)
\* model(x) on a batch of rows: one output per row, a function of the parameters
\* and of the row
Forward(model, x) == [i \in 1..Len(x) |-> [model |-> model.version, x |-> x[i]]]

RECURSIVE Cat(_)
\* torch.cat(preds, dim=0)
Cat(tensors) == IF tensors = << >> THEN << >> ELSE Head(tensors) \o Cat(Tail(tensors))

\* model.eval(); preds = []; the loop starts to iterate test_loader
PredictBegin ==
    /\ pc = "predict"
    /\ preds' = << >>
    /\ pending' = Iter(test_loader)
    /\ pc' = "batches"
    /\ UNCHANGED << config, raw_len, feat, args, dataset, train_data, valid_data,
                    train_dataset, valid_dataset, test_dataset, train_loader,
                    valid_loader, test_loader, data_loader, ret >>
    /\ UNCHANGED << epoch, best_loss, step, early_stop_count, loss_record,
                    mean_train_loss, batch, params, ckpt, writer >>

\* one iteration of "for x in tqdm(test_loader)": preds.append(model(x))
PredictBatch ==
    /\ pc = "batches"
    /\ pending # {}
    /\ \E S \in NextBatches(test_loader, pending) :
          /\ batch' = Collate(test_loader, S)
          /\ pending' = pending \ S
          /\ preds' = Append(preds, Forward(params, Collate(test_loader, S)))
    /\ UNCHANGED << pc, config, raw_len, feat, args, dataset, train_data, valid_data,
                    train_dataset, valid_dataset, test_dataset, train_loader,
                    valid_loader, test_loader, data_loader, ret >>
    /\ UNCHANGED << epoch, best_loss, step, early_stop_count, loss_record,
                    mean_train_loss, params, ckpt, writer >>

\* preds = torch.cat(preds, dim=0).numpy(); return preds.  torch.cat raises on
\* an empty list
PredictEnd ==
    /\ pc = "batches"
    /\ pending = {}
    /\ IF preds = << >>
       THEN pc' = "error" /\ preds' = preds
       ELSE pc' = "done" /\ preds' = Cat(preds)
    /\ UNCHANGED << config, raw_len, feat, args, dataset, train_data, valid_data,
                    train_dataset, valid_dataset, test_dataset, train_loader,
                    valid_loader, test_loader, data_loader, ret >>
    /\ UNCHANGED << epoch, best_loss, step, early_stop_count, loss_record,
                    mean_train_loss, pending, batch, params, ckpt, writer >>

InitPredict ==
    /\ pc = "predict"
    /\ \E b \in {1, 2} :
          config = [n_epochs |-> 1, early_stop |-> 1, batch_size |-> b,
                    valid_ratio |-> Double(104857, 157286, 104858, 55)]
    /\ \E n \in 0..MaxLen : test_dataset = MyDataset(Ids(0, n), << >>, FALSE)
    /\ test_loader = DataLoader(test_dataset, config.batch_size, FALSE)
    /\ \/ data_loader = test_loader
       \/ \E n \in 0..MaxLen :
             data_loader = DataLoader(MyDataset(Ids(100, n), << >>, FALSE),
                                      config.batch_size, FALSE)
    /\ preds = << >>
    /\ params = FNN
    /\ ckpt = << >>
    /\ TrainerEntry
    /\ NoSplit
    /\ NoLoaders
    /\ NoDataset

NextPredict == PredictBegin \/ PredictBatch \/ PredictEnd

SpecPredict == InitPredict /\ [][NextPredict]_vars

(***************************************************************************)
(* C6.  What predict returns is one prediction per row of the loader it    *)
(* was given as data_loader, in the order of that loader's rows: as many   *)
(* entries as that loader has rows, entry i being the model's output on    *)
(* its row i.                                                              *)
(***************************************************************************)
C6_PredictsGivenLoader ==
    pc = "done" =>
        /\ Len(preds) = DatasetLen(data_loader.dataset)
        /\ preds = Forward(params, data_loader.dataset.x)

(***************************************************************************)
(* The notebook from the split to the end of training.                     *)
(***************************************************************************)
\* row i of the table of covid.train.csv: one feature column, then the label
RawRow(i) == << i, 100 + i >>

\* the table of covid.test.csv: rows of features alone
TestData == << << 201 >>, << 202 >> >>

\* select_feat(train_data, valid_data, test_data, select_all=True)
select_feat(train, valid, test) ==
    [x_train |-> [j \in 1..Len(train) |-> RawRow(train[j])[1]],
     x_valid |-> [j \in 1..Len(valid) |-> RawRow(valid[j])[1]],
     x_text  |-> [j \in 1..Len(test) |-> test[j][1]],
     y_train |-> [j \in 1..Len(train) |-> RawRow(train[j])[2]],
     y_valid |-> [j \in 1..Len(valid) |-> RawRow(valid[j])[2]]]

\* x_train, x_valid, x_text, y_train, y_valid = select_feat(...).  np.array of a
\* subset with no rows is one-dimensional, and train_data[:,-1] raises on it
SelectFeat ==
    /\ pc = "select"
    /\ IF train_data = << >> \/ valid_data = << >>
       THEN pc' = "error" /\ feat' = feat
       ELSE pc' = "datasets" /\ feat' = select_feat(train_data, valid_data, TestData)
    /\ UNCHANGED << config, raw_len, args, dataset, train_data, valid_data,
                    train_dataset, valid_dataset, test_dataset, train_loader,
                    valid_loader, test_loader, data_loader, preds, ret >>
    /\ UNCHANGED trainerVars

\* train_dataset, valid_dataset, test_dataset =
\*     MyDataset(x_valid, y_valid), MyDataset(x_train, y_train), MyDataset(x_text)
MakeDatasets ==
    /\ pc = "datasets"
    /\ train_dataset' = MyDataset(feat.x_valid, feat.y_valid, TRUE)
    /\ valid_dataset' = MyDataset(feat.x_train, feat.y_train, TRUE)
    /\ test_dataset' = MyDataset(feat.x_text, << >>, FALSE)
    /\ pc' = "loaders"
    /\ UNCHANGED << config, raw_len, feat, args, dataset, train_data, valid_data,
                    train_loader, valid_loader, test_loader, data_loader, preds, ret >>
    /\ UNCHANGED trainerVars

\* the three DataLoader(...) of the notebook
MakeLoaders ==
    /\ pc = "loaders"
    /\ train_loader' = DataLoader(train_dataset, config.batch_size, TRUE)
    /\ valid_loader' = DataLoader(valid_dataset, config.batch_size, TRUE)
    /\ test_loader' = DataLoader(test_dataset, config.batch_size, FALSE)
    /\ pc' = "model"
    /\ UNCHANGED << config, raw_len, feat, args, dataset, train_data, valid_data,
                    train_dataset, valid_dataset, test_dataset, data_loader, preds, ret >>
    /\ UNCHANGED trainerVars

\* model = FNN(...); trainer(train_loader, valid_loader, model, config): up to
\* the first iteration of the epoch loop
TrainerCall ==
    /\ pc = "model"
    /\ params' = FNN
    /\ epoch' = 0
    /\ best_loss' = TwoPow64
    /\ step' = 0
    /\ early_stop_count' = 0
    /\ pc' = "loop"
    /\ UNCHANGED << loss_record, mean_train_loss, pending, batch, ckpt, writer >>
    /\ UNCHANGED fixedVars

NextPipeline ==
    \/ Split
    \/ SelectFeat
    \/ MakeDatasets
    \/ MakeLoaders
    \/ TrainerCall
    \/ EpochBegin
    \/ LoopExit
    \/ TrainBatch
    \/ TrainMean
    \/ ValidBatch
    \/ EpochEnd

SpecPipeline == InitSplit /\ [][NextPipeline]_vars

\* the feature values of the rows of a subset of the table
FeaturesOf(rows) == { RawRow(rows[j])[1] : j \in 1..Len(rows) }

(***************************************************************************)
(* C4.  The loader the trainer takes its optimizer steps on holds the rows *)
(* of the training subset of the split, and every batch of a step is made  *)
(* of them; the loader it computes the validation loss on holds the rows   *)
(* of the validation subset, and a validation batch changes no parameter.  *)
(***************************************************************************)
C4_TrainsOnTrainingSubset ==
    /\ (pc = "train" /\ loss_record # << >>) =>
          /\ params.version = step
          /\ DatasetLen(train_loader.dataset) = Len(train_data)
          /\ \A i \in 1..Len(batch) : batch[i][1] \in FeaturesOf(train_data)
    /\ (pc = "valid" /\ loss_record # << >>) =>
          /\ DatasetLen(valid_loader.dataset) = Len(valid_data)
          /\ \A i \in 1..Len(batch) : batch[i][1] \in FeaturesOf(valid_data)

=============================================================================
